---------------------------- MODULE Spec2Model ----------------------------
(***************************************************************************)
(* Model of the browser shell src/src/app.js (upload / preview / export)   *)
(* and of the watermark engine it drives.                                  *)
(*                                                                         *)
(* The shell runs on the JavaScript event loop: a handler or the           *)
(* continuation of an `await` runs to its next `await` without             *)
(* interruption.  Every action below is therefore one such run-to-         *)
(* completion step: the settling of one awaited promise together with all  *)
(* the synchronous code that follows it up to the next await.              *)
(*                                                                         *)
(* The engine (./core/watermarkEngine.js) is imported by app.js but its    *)
(* code is not part of src/.  Its geometry and removal operations are      *)
(* modelled from sections 3, 4 and 8 of the specification (second part of  *)
(* the module); in the shell part a removal call is an asynchronous        *)
(* operation that settles by resolving or rejecting.                       *)
(***************************************************************************)
EXTENDS Integers, Sequences, FiniteSets, TLC

(***************************************************************************)
(* Bounds of the model.                                                    *)
(***************************************************************************)
\* number of selections (handleFiles calls) that enqueue something
MaxDrops == 2
\* number of items enqueued in all, over all selections
MaxItems == 4
\* number of files in one selection: two selections of that size fit in
\* MaxItems, so that batches can overlap
MaxFiles == MaxItems \div 2

(***************************************************************************)
(* Files offered to the shell.  A file is known to the shell by its MIME   *)
(* type, its size in bytes and its name (app.js:121-132).                  *)
(***************************************************************************)
\* 20 * 1024 * 1024, the size limit of handleFiles
MaxFileSize == 20971520

FileIds == 1..3

\* file 1: a PNG of exactly the size limit; file 2: a GIF; file 3: a PNG one
\* byte above the limit.
FileType(f) == CASE f = 1 -> "image/png"
                 [] f = 2 -> "image/gif"
                 [] OTHER -> "image/png"

FileSize(f) == CASE f = 1 -> MaxFileSize
                 [] f = 2 -> 1024
                 [] OTHER -> MaxFileSize + 1

\* a name is the sequence of its dot-separated parts
FileName(f) == CASE f = 1 -> <<"photo", "png">>
                 [] f = 2 -> <<"anim", "gif">>
                 [] OTHER -> <<"huge", "png">>

\* file.type.match('image/(jpeg|png|webp)') on the MIME types above
TypeMatches(t) == t \in {"image/jpeg", "image/png", "image/webp"}

\* the filter callback of handleFiles
IsValidFile_NoSizeLimit(f) == TypeMatches(FileType(f))

IsValidFile(f) ==
    IF ~TypeMatches(FileType(f)) THEN FALSE
    ELSE IF FileSize(f) > MaxFileSize THEN FALSE
    ELSE TRUE

validFiles(files) == SelectSeq(files, IsValidFile)

\* the file lists a change or drop event can deliver
Selections == UNION {[1..n -> FileIds] : n \in 0..MaxFiles}

(***************************************************************************)
(* State.                                                                  *)
(***************************************************************************)
VARIABLES
    initPc,           \* position of init(): "i18n", "create", "ready", "failed"
    engine,           \* module variable `engine`: 0 is null, k > 0 the handle
                      \* returned by the k-th WatermarkEngine.create()
    createCalls,      \* number of WatermarkEngine.create() calls made
    langListener,     \* click listener of #langSwitch registered
    listeners,        \* setupEventListeners() has run
    nullEngineCalls,  \* some engine method was called while engine was null
    imageQueue,       \* the array `imageQueue` refers to: 0 is an empty array,
                      \* b > 0 the array built by the b-th enqueuing selection
    batchLen,         \* batchLen[b]: length of the array built by selection b
    items,            \* the item objects, by <<array, index>>
    processedCount,   \* module variable `processedCount`
    runs,             \* runs[b]: the processSingle / processQueue call
                      \* started by selection b
    singlePreview,    \* #singlePreview displayed
    multiPreview,     \* #multiPreview displayed
    cards,            \* the array whose cards are in #imageList (0: none)
    progressText,     \* #progressText: <<>> or <<count, length>>
    downloadAllBtn,   \* #downloadAllBtn displayed
    originalCanvas,   \* item drawn in #originalCanvas (<<>>: nothing)
    processedImage,   \* item whose result is in #processedImage
    processedSection, \* #processedSection displayed
    downloadBtn,      \* item served by #downloadBtn.onclick
    lastZip,          \* entry names of the last zip built by downloadAll
    lastDrop,         \* what the last selection did: "none", "accepted",
                      \* "rejected" (no valid file)
    corePc,           \* engine part: "idle", "queried", "removed"
    image,            \* engine part: the source raster of the call
    held,             \* engine part: the raster as the caller handed it over
    output,           \* engine part: the raster returned by the removal
    query,            \* engine part: <<width, height>> of the geometry query
    info              \* engine part: the region returned by the geometry query

initVars == <<initPc, engine, createCalls, langListener, listeners,
              nullEngineCalls>>
queueVars == <<imageQueue, batchLen, items, processedCount, runs, lastDrop>>
domVars == <<singlePreview, multiPreview, cards, progressText, downloadAllBtn,
             originalCanvas, processedImage, processedSection, downloadBtn,
             lastZip>>
shellVars == <<initVars, queueVars, domVars>>
coreVars == <<corePc, image, held, output, query, info>>
vars == <<shellVars, coreVars>>

NoItem == <<>>
NoRaster == [width |-> 0, height |-> 0, data |-> <<>>]
NoRegion == [size |-> 0, position |-> [x |-> 0, y |-> 0]]

ShellInit ==
    /\ initPc = "i18n"
    /\ engine = 0
    /\ createCalls = 0
    /\ langListener = FALSE
    /\ listeners = FALSE
    /\ nullEngineCalls = FALSE
    /\ imageQueue = 0
    /\ batchLen = <<>>
    /\ items = <<>>
    /\ processedCount = 0
    /\ runs = <<>>
    /\ singlePreview = FALSE
    /\ multiPreview = FALSE
    /\ cards = 0
    /\ progressText = <<>>
    /\ downloadAllBtn = FALSE
    /\ originalCanvas = NoItem
    /\ processedImage = NoItem
    /\ processedSection = FALSE
    /\ downloadBtn = NoItem
    /\ lastZip = {}
    /\ lastDrop = "none"

CoreIdle ==
    /\ corePc = "idle"
    /\ image = NoRaster
    /\ held = NoRaster
    /\ output = NoRaster
    /\ query = <<>>
    /\ info = NoRegion

Init == ShellInit /\ CoreIdle

(***************************************************************************)
(* Helpers on the queue.                                                   *)
(***************************************************************************)
\* length of array a
QLen(a) == IF a = 0 THEN 0 ELSE batchLen[a]

\* number of items built so far
RECURSIVE Sum(_)
Sum(s) == IF s = <<>> THEN 0 ELSE Head(s) + Sum(Tail(s))
TotalItems == Sum(batchLen)

\* number of items of array a with status 'completed'
CompletedIn(a) ==
    Cardinality({i \in 1..QLen(a) : items[<<a, i>>].status = "completed"})

\* the item a run is working on
CurrentItem(r) == <<runs[r].arr, runs[r].idx>>

\* document.getElementById(`result-${id}`) and its siblings find the card of
\* an item exactly while the cards of the item's array are in #imageList.
\* Ids are Date.now() + index; selections are taken to be far enough apart in
\* time for ids of different selections to differ.
HasCard(id) == cards = id[1]

(***************************************************************************)
(* init(), app.js:32-46.                                                   *)
(***************************************************************************)
\* i18n.init() resolved: setupLanguageSwitch, showLoading, create() called
InitI18nResolved_ListenersEarly ==
    /\ initPc = "i18n"
    /\ initPc' = "create"
    /\ langListener' = TRUE
    /\ listeners' = TRUE
    /\ createCalls' = createCalls + 1
    /\ UNCHANGED <<engine, nullEngineCalls, queueVars, domVars, coreVars>>

InitI18nResolved ==
    /\ initPc = "i18n"
    /\ initPc' = "create"
    /\ langListener' = TRUE
    /\ createCalls' = createCalls + 1
    /\ UNCHANGED <<engine, listeners, nullEngineCalls, queueVars, domVars,
                   coreVars>>

\* i18n.init() rejected: the catch block
InitI18nRejected ==
    /\ initPc = "i18n"
    /\ initPc' = "failed"
    /\ UNCHANGED <<engine, createCalls, langListener, listeners,
                   nullEngineCalls, queueVars, domVars, coreVars>>

\* WatermarkEngine.create() resolved: engine assigned, listeners registered
InitCreateResolved ==
    /\ initPc = "create"
    /\ initPc' = "ready"
    /\ engine' = createCalls
    /\ listeners' = TRUE
    /\ UNCHANGED <<createCalls, langListener, nullEngineCalls, queueVars,
                   domVars, coreVars>>

\* WatermarkEngine.create() rejected: the catch block
InitCreateRejected ==
    /\ initPc = "create"
    /\ initPc' = "failed"
    /\ UNCHANGED <<engine, createCalls, langListener, listeners,
                   nullEngineCalls, queueVars, domVars, coreVars>>

(***************************************************************************)
(* reset(), app.js:88-94.                                                  *)
(***************************************************************************)
reset_DropsEngine ==
    /\ listeners
    /\ singlePreview' = FALSE
    /\ multiPreview' = FALSE
    /\ imageQueue' = 0
    /\ processedCount' = 0
    /\ engine' = 0
    /\ UNCHANGED <<initPc, createCalls, langListener, listeners,
                   nullEngineCalls, batchLen, items, runs, lastDrop, cards,
                   progressText, downloadAllBtn, originalCanvas,
                   processedImage, processedSection, downloadBtn, lastZip,
                   coreVars>>

reset ==
    /\ listeners
    /\ singlePreview' = FALSE
    /\ multiPreview' = FALSE
    /\ imageQueue' = 0
    /\ processedCount' = 0
    /\ UNCHANGED <<initVars, batchLen, items, runs, lastDrop, cards,
                   progressText, downloadAllBtn, originalCanvas,
                   processedImage, processedSection, downloadBtn, lastZip,
                   coreVars>>

(***************************************************************************)
(* The click listener of #langSwitch, app.js:54-59, at the point where     *)
(* i18n.switchLocale has resolved: updateDynamicTexts, app.js:295-299.     *)
(***************************************************************************)
switchLanguage ==
    /\ langListener
    /\ progressText # <<>>
    /\ progressText' = <<processedCount, QLen(imageQueue)>>
    /\ UNCHANGED <<initVars, queueVars, singlePreview, multiPreview, cards,
                   downloadAllBtn, originalCanvas, processedImage,
                   processedSection, downloadBtn, lastZip, coreVars>>

(***************************************************************************)
(* handleFiles(files), app.js:120-153, reached from the change listener    *)
(* of #fileInput (handleFileSelect, app.js:116-118) and from the drop      *)
(* listener (app.js:78-82).  It runs up to the first await of the          *)
(* processSingle / processQueue call it makes: loadImage of the first      *)
(* item has been started when it returns.                                  *)
(***************************************************************************)
\* the objects built by validFiles.map(...) for selection b
NewItems(b, vf) ==
    [id \in {<<b, i>> : i \in 1..Len(vf)} |->
        [file         |-> vf[id[2]],
         name         |-> FileName(vf[id[2]]),
         status       |-> "pending",
         originalImg  |-> 0,
         processedBlob |-> "null",
         onclick      |-> FALSE]]

\* the call started by selection b on n valid files, at its first await
NewRun(b, n) ==
    [kind |-> IF n = 1 THEN "single" ELSE "queue",
     pc   |-> "load",
     loop |-> 1,
     arr  |-> b,
     idx  |-> 1,
     arg  |-> 0]

handleFiles(files) ==
    /\ listeners
    /\ LET vf == validFiles(files)
           b  == Len(runs) + 1
       IN IF Len(vf) = 0
          THEN /\ lastDrop' = "rejected"
               /\ UNCHANGED <<initVars, imageQueue, batchLen, items,
                              processedCount, runs, domVars, coreVars>>
          ELSE /\ b <= MaxDrops
               /\ TotalItems + Len(vf) <= MaxItems
               /\ lastDrop' = "accepted"
               /\ imageQueue' = b
               /\ batchLen' = Append(batchLen, Len(vf))
               /\ items' = NewItems(b, vf) @@ items
               /\ processedCount' = 0
               /\ runs' = Append(runs, NewRun(b, Len(vf)))
               /\ IF Len(vf) = 1
                  THEN /\ singlePreview' = TRUE
                       /\ multiPreview' = FALSE
                       /\ UNCHANGED <<cards, progressText>>
                  ELSE /\ singlePreview' = FALSE
                       /\ multiPreview' = TRUE
                       /\ cards' = b
                       /\ progressText' = <<0, Len(vf)>>
               /\ UNCHANGED <<initVars, downloadAllBtn, originalCanvas,
                              processedImage, processedSection, downloadBtn,
                              lastZip, coreVars>>

(***************************************************************************)
(* processSingle(item), app.js:161-199.  Every exception is caught at      *)
(* app.js:196 and ends the call.                                           *)
(***************************************************************************)
IsSingleAt(r, pc) ==
    /\ r \in 1..Len(runs)
    /\ runs[r].kind = "single"
    /\ runs[r].pc = pc

SingleFrame == <<initPc, engine, createCalls, langListener, listeners,
                 imageQueue, batchLen, processedCount, lastDrop,
                 singlePreview, multiPreview, cards, progressText,
                 downloadAllBtn, lastZip, coreVars>>

\* loadImage resolved (app.js:163-166): originalImg assigned, checkOriginal
\* awaited
SingleLoadResolved(r) ==
    /\ IsSingleAt(r, "load")
    /\ items' = [items EXCEPT ![<<r, 1>>].originalImg = @ + 1]
    /\ runs' = [runs EXCEPT ![r].pc = "check"]
    /\ UNCHANGED <<SingleFrame, nullEngineCalls, originalCanvas,
                   processedImage, processedSection, downloadBtn>>

\* loadImage rejected (reader.onerror, img.onerror; app.js:278-281)
SingleLoadRejected(r) ==
    /\ IsSingleAt(r, "load")
    /\ runs' = [runs EXCEPT ![r].pc = "done"]
    /\ UNCHANGED <<SingleFrame, nullEngineCalls, items, originalCanvas,
                   processedImage, processedSection, downloadBtn>>

\* checkOriginal settled (it never rejects, app.js:96-106): the image is
\* drawn (app.js:170-172), the geometry is queried and shown (174-179) and
\* the removal is called (181)
SingleCheckSettled(r) ==
    /\ IsSingleAt(r, "check")
    /\ originalCanvas' = <<r, 1>>
    /\ IF engine = 0
       THEN \* engine.getWatermarkInfo on null throws a TypeError
            /\ nullEngineCalls' = TRUE
            /\ runs' = [runs EXCEPT ![r].pc = "done"]
       ELSE /\ nullEngineCalls' = nullEngineCalls
            /\ runs' = [runs EXCEPT ![r].pc = "remove",
                                    ![r].arg = items[<<r, 1>>].originalImg]
    /\ UNCHANGED <<SingleFrame, items, processedImage, processedSection,
                   downloadBtn>>

\* removeWatermarkFromImage resolved: toBlob awaited (app.js:181-182)
SingleRemoveResolved(r) ==
    /\ IsSingleAt(r, "remove")
    /\ runs' = [runs EXCEPT ![r].pc = "blob"]
    /\ UNCHANGED <<SingleFrame, nullEngineCalls, items, originalCanvas,
                   processedImage, processedSection, downloadBtn>>

\* removeWatermarkFromImage rejected
SingleRemoveRejected(r) ==
    /\ IsSingleAt(r, "remove")
    /\ runs' = [runs EXCEPT ![r].pc = "done"]
    /\ UNCHANGED <<SingleFrame, nullEngineCalls, items, originalCanvas,
                   processedImage, processedSection, downloadBtn>>

\* the toBlob callback ran with blob (a Blob, or null when the canvas could
\* not be encoded): app.js:183-195.  URL.createObjectURL(null) throws.
SingleBlobSettled(r, blob) ==
    /\ IsSingleAt(r, "blob")
    /\ items' = [items EXCEPT ![<<r, 1>>].processedBlob = blob]
    /\ runs' = [runs EXCEPT ![r].pc = "done"]
    /\ IF blob = "null"
       THEN UNCHANGED <<processedImage, processedSection, downloadBtn>>
       ELSE /\ processedImage' = <<r, 1>>
            /\ processedSection' = TRUE
            /\ downloadBtn' = <<r, 1>>
    /\ UNCHANGED <<SingleFrame, nullEngineCalls, originalCanvas>>

(***************************************************************************)
(* processQueue(), app.js:224-270.                                         *)
(***************************************************************************)
IsQueueAt(r, loop, pc) ==
    /\ r \in 1..Len(runs)
    /\ runs[r].kind = "queue"
    /\ runs[r].loop = loop
    /\ runs[r].pc = pc

QueueFrame == <<initPc, engine, createCalls, langListener, listeners,
                imageQueue, batchLen, lastDrop, singlePreview, multiPreview,
                cards, originalCanvas, processedImage, processedSection,
                downloadBtn, lastZip, coreVars>>

\* The second loop (app.js:231-265) from index j of array a, up to its next
\* await or its end: items that are not 'pending' are skipped (232), the
\* first pending one becomes 'processing' (234) and the removal is called on
\* its originalImg (238).  With a null engine the call throws inside the try
\* block and the item is marked 'error' (261).
RECURSIVE SecondLoop(_, _, _, _)
SecondLoop(its, a, j, eng) ==
    IF j > QLen(a)
    THEN [items |-> its, idx |-> j, pc |-> "done", arg |-> 0, bad |-> FALSE]
    ELSE IF its[<<a, j>>].status # "pending"
    THEN SecondLoop(its, a, j + 1, eng)
    ELSE IF eng = 0
    THEN [SecondLoop([its EXCEPT ![<<a, j>>].status = "error"], a, j + 1, eng)
             EXCEPT !.bad = TRUE]
    ELSE [items |-> [its EXCEPT ![<<a, j>>].status = "processing"],
          idx   |-> j,
          pc    |-> "remove",
          arg   |-> its[<<a, j>>].originalImg,
          bad   |-> FALSE]

\* run r goes on in the second loop at index j of array a; cnt is the value
\* of processedCount after the step (app.js:267-269 when the loop ends)
ContinueQueue(r, its, a, j, cnt, bad) ==
    LET res == SecondLoop(its, a, j, engine)
    IN /\ items' = res.items
       /\ runs' = [runs EXCEPT ![r] = [kind |-> "queue", pc |-> res.pc,
                                       loop |-> 2, arr |-> a,
                                       idx |-> res.idx, arg |-> res.arg]]
       /\ downloadAllBtn' = (downloadAllBtn \/ (res.pc = "done" /\ cnt > 0))
       /\ nullEngineCalls' = (nullEngineCalls \/ bad \/ res.bad)

\* first loop (app.js:225-229): loadImage of item idx resolved.  The card's
\* <img> is looked up outside any try block: without the card the call ends
\* with an uncaught TypeError.  After the last item the second loop starts
\* on the array imageQueue refers to at that moment.
QueueLoadResolved(r) ==
    /\ IsQueueAt(r, 1, "load")
    /\ LET id == <<r, runs[r].idx>>
           loaded == [items EXCEPT ![id].originalImg = @ + 1]
       IN IF ~HasCard(id)
          THEN /\ items' = loaded
               /\ runs' = [runs EXCEPT ![r].pc = "aborted"]
               /\ UNCHANGED <<downloadAllBtn, nullEngineCalls>>
          ELSE IF runs[r].idx < batchLen[r]
          THEN /\ items' = loaded
               /\ runs' = [runs EXCEPT ![r].idx = @ + 1]
               /\ UNCHANGED <<downloadAllBtn, nullEngineCalls>>
          ELSE ContinueQueue(r, loaded, imageQueue, 1, processedCount, FALSE)
    /\ UNCHANGED <<QueueFrame, processedCount, progressText>>

\* first loop: loadImage rejected; the rejection is not caught
QueueLoadRejected(r) ==
    /\ IsQueueAt(r, 1, "load")
    /\ runs' = [runs EXCEPT ![r].pc = "aborted"]
    /\ UNCHANGED <<QueueFrame, items, processedCount, progressText,
                   downloadAllBtn, nullEngineCalls>>

\* removeWatermarkFromImage resolved (app.js:238): toBlob awaited (239).
\* A call made on a null originalImg has no image to return a result for.
QueueRemoveResolved(r) ==
    /\ IsQueueAt(r, 2, "remove")
    /\ runs[r].arg # 0
    /\ runs' = [runs EXCEPT ![r].pc = "blob"]
    /\ UNCHANGED <<QueueFrame, items, processedCount, progressText,
                   downloadAllBtn, nullEngineCalls>>

\* removeWatermarkFromImage rejected: catch block (app.js:260-264), then the
\* loop goes on
QueueRemoveRejected_Aborts(r) ==
    /\ IsQueueAt(r, 2, "remove")
    /\ items' = [items EXCEPT ![CurrentItem(r)].status = "error"]
    /\ runs' = [runs EXCEPT ![r].pc = "aborted"]
    /\ UNCHANGED <<QueueFrame, processedCount, progressText, downloadAllBtn,
                   nullEngineCalls>>

QueueRemoveRejected(r) ==
    /\ IsQueueAt(r, 2, "remove")
    /\ ContinueQueue(r, [items EXCEPT ![CurrentItem(r)].status = "error"],
                     runs[r].arr, runs[r].idx + 1, processedCount, FALSE)
    /\ UNCHANGED <<QueueFrame, processedCount, progressText>>

\* the toBlob callback ran with blob (app.js:239-246).  processedBlob is
\* assigned; showing the result throws when blob is null or the card is
\* gone; otherwise the item is 'completed', the geometry is queried and
\* checkOriginal is awaited.
QueueBlobSettled(r, blob) ==
    /\ IsQueueAt(r, 2, "blob")
    /\ LET id == CurrentItem(r)
           got == [items EXCEPT ![id].processedBlob = blob]
       IN IF blob = "null" \/ ~HasCard(id)
          THEN ContinueQueue(r, [got EXCEPT ![id].status = "error"],
                             runs[r].arr, runs[r].idx + 1, processedCount,
                             FALSE)
          ELSE IF engine = 0
          THEN ContinueQueue(r, [got EXCEPT ![id].status = "error"],
                             runs[r].arr, runs[r].idx + 1, processedCount,
                             TRUE)
          ELSE /\ items' = [got EXCEPT ![id].status = "completed"]
               /\ runs' = [runs EXCEPT ![r].pc = "check"]
               /\ UNCHANGED <<downloadAllBtn, nullEngineCalls>>
    /\ UNCHANGED <<QueueFrame, processedCount, progressText>>

\* checkOriginal settled (app.js:246-259): the card's download button is
\* looked up (TypeError without the card, caught at 260), its handler is
\* installed, processedCount is incremented and the progress text redrawn;
\* then the loop goes on
QueueCheckSettled(r) ==
    /\ IsQueueAt(r, 2, "check")
    /\ LET id == CurrentItem(r)
       IN IF ~HasCard(id)
          THEN /\ ContinueQueue(r, [items EXCEPT ![id].status = "error"],
                                runs[r].arr, runs[r].idx + 1, processedCount,
                                FALSE)
               /\ UNCHANGED <<processedCount, progressText>>
          ELSE /\ processedCount' = processedCount + 1
               /\ progressText' = <<processedCount + 1, QLen(imageQueue)>>
               /\ ContinueQueue(r, [items EXCEPT ![id].onclick = TRUE],
                                runs[r].arr, runs[r].idx + 1,
                                processedCount + 1, FALSE)
    /\ UNCHANGED QueueFrame

(***************************************************************************)
(* downloadAll(), app.js:308-323, at the click: the zip gets one entry per *)
(* file name (JSZip.file replaces an entry of the same name).  The handler *)
(* is the click listener of #downloadAllBtn; the page sets the button's    *)
(* initial display, so the listener is taken to be reachable once it is    *)
(* registered.                                                             *)
(***************************************************************************)
\* name.replace(/\.[^.]+$/, ''): the last dot and what follows it go, when
\* something follows it
StripExtension(name) ==
    IF Len(name) >= 2 /\ name[Len(name)] # ""
    THEN SubSeq(name, 1, Len(name) - 1)
    ELSE name

\* `unwatermarked_${...}.png`
DownloadName(name) == <<"unwatermarked_">> \o StripExtension(name) \o <<"png">>

downloadAll ==
    /\ listeners
    /\ LET completed == {i \in 1..QLen(imageQueue) :
                           items[<<imageQueue, i>>].status = "completed"}
       IN /\ completed # {}
          /\ lastZip' = {DownloadName(items[<<imageQueue, i>>].name) :
                            i \in completed}
    /\ UNCHANGED <<initVars, queueVars, singlePreview, multiPreview, cards,
                   progressText, downloadAllBtn, originalCanvas,
                   processedImage, processedSection, downloadBtn, coreVars>>

(***************************************************************************)
(* The shell as a whole.                                                   *)
(***************************************************************************)
Blobs == {"blob", "null"}

Next ==
    \/ InitI18nResolved
    \/ InitI18nRejected
    \/ InitCreateResolved
    \/ InitCreateRejected
    \/ reset
    \/ switchLanguage
    \/ downloadAll
    \/ \E files \in Selections : handleFiles(files)
    \/ \E r \in 1..Len(runs) : SingleLoadResolved(r)
    \/ \E r \in 1..Len(runs) : SingleLoadRejected(r)
    \/ \E r \in 1..Len(runs) : SingleCheckSettled(r)
    \/ \E r \in 1..Len(runs) : SingleRemoveResolved(r)
    \/ \E r \in 1..Len(runs) : SingleRemoveRejected(r)
    \/ \E r \in 1..Len(runs), blob \in Blobs : SingleBlobSettled(r, blob)
    \/ \E r \in 1..Len(runs) : QueueLoadResolved(r)
    \/ \E r \in 1..Len(runs) : QueueLoadRejected(r)
    \/ \E r \in 1..Len(runs) : QueueRemoveResolved(r)
    \/ \E r \in 1..Len(runs) : QueueRemoveRejected(r)
    \/ \E r \in 1..Len(runs), blob \in Blobs : QueueBlobSettled(r, blob)
    \/ \E r \in 1..Len(runs) : QueueCheckSettled(r)

Spec == Init /\ [][Next]_vars

(***************************************************************************)
(* The watermark engine: GeometryResolver, RegionSynthesizer and the       *)
(* facade, after sections 3, 4.1-4.3 and 8 of the specification.  The      *)
(* numeric constants are left open there (section 9); the values below     *)
(* are scaled to the small rasters of the model and keep the stated        *)
(* policy: a size proportional to the smaller dimension, clamped between   *)
(* a minimum and a maximum, shrunk to fit, with an inset that scales too.  *)
(***************************************************************************)
\* largest number of pixels of a raster handed to the removal
MaxPixels == 9
\* largest width and height of a geometry query
MaxQueryDim == 12

MinSize == 2
MaxSize == 3
SizeDivisor == 3
MarginDivisor == 4

\* one value per pixel stands for its four 8-bit channels
PixelValues == {0, 255}

Min(a, b) == IF a < b THEN a ELSE b
Max(a, b) == IF a > b THEN a ELSE b

\* rasters are row-major: pixel (x, y) is data[y * width + x]
RasterDims ==
    {d \in (1..MaxPixels) \X (1..MaxPixels) : d[1] * d[2] <= MaxPixels}

Rasters ==
    UNION {[width : {d[1]}, height : {d[2]},
            data : [0..(d[1] * d[2] - 1) -> PixelValues]] : d \in RasterDims}

\* GeometryResolver.resolve (section 4.1)
resolve_NoShrink(width, height) ==
    LET m      == Min(width, height)
        size   == Max(MinSize, Min(MaxSize, m \div SizeDivisor))
        margin == m \div MarginDivisor
    IN [size |-> size,
        position |-> [x |-> width - margin - size,
                      y |-> height - margin - size]]

resolve(width, height) ==
    LET m       == Min(width, height)
        nominal == Max(MinSize, Min(MaxSize, m \div SizeDivisor))
        size    == Min(nominal, m)
        margin  == Min(m \div MarginDivisor, m - size)
    IN [size |-> size,
        position |-> [x |-> width - margin - size,
                      y |-> height - margin - size]]

\* pixel (x, y) lies in the region
InRegion(region, x, y) ==
    /\ region.position.x <= x /\ x < region.position.x + region.size
    /\ region.position.y <= y /\ y < region.position.y + region.size

Pixel(img, x, y) == img.data[y * img.width + x]

\* RegionSynthesizer.synthesize (section 4.2, baseline fill): the content of
\* pixel (x, y) of the region, from the nearest pixels outside the region
\* to its left and above it
synthesize(img, region, x, y) ==
    LET hasLeft == region.position.x > 0
        hasUp   == region.position.y > 0
        left    == Pixel(img, region.position.x - 1, y)
        up      == Pixel(img, x, region.position.y - 1)
    IN IF hasLeft /\ hasUp THEN (left + up) \div 2
       ELSE IF hasLeft THEN left
       ELSE IF hasUp THEN up
       ELSE Pixel(img, x, y)

\* removeWatermark (section 4.3): the patch spliced into a copy of the source
removeWatermark_WholeRows(img) ==
    LET region == resolve(img.width, img.height)
    IN [width  |-> img.width,
        height |-> img.height,
        data   |-> [i \in 0..(img.width * img.height - 1) |->
                      LET x == i % img.width
                          y == i \div img.width
                      IN IF region.position.y <= y
                         THEN synthesize(img, region,
                                         Max(x, region.position.x), y)
                         ELSE img.data[i]]]

removeWatermark(img) ==
    LET region == resolve(img.width, img.height)
    IN [width  |-> img.width,
        height |-> img.height,
        data   |-> [i \in 0..(img.width * img.height - 1) |->
                      LET x == i % img.width
                          y == i \div img.width
                      IN IF InRegion(region, x, y)
                         THEN synthesize(img, region, x, y)
                         ELSE img.data[i]]]

\* the caller hands a decoded raster to the engine
CoreLoadRaster(img) ==
    /\ corePc = "idle"
    /\ corePc' = "loaded"
    /\ image' = img
    /\ held' = img
    /\ UNCHANGED <<output, query, info, shellVars>>

\* getWatermarkInfo(width, height), with or without a raster at hand
CoreGetWatermarkInfo(width, height) ==
    /\ corePc = "idle"
    /\ corePc' = "queried"
    /\ query' = <<width, height>>
    /\ info' = resolve(width, height)
    /\ UNCHANGED <<image, held, output, shellVars>>

\* getWatermarkInfo(img.width, img.height), as the shell calls it
CoreGetImageInfo ==
    /\ corePc = "loaded"
    /\ query = <<>>
    /\ query' = <<image.width, image.height>>
    /\ info' = resolve(image.width, image.height)
    /\ UNCHANGED <<corePc, image, held, output, shellVars>>

\* removeWatermarkFromImage(img) resolved
CoreRemoveWatermark ==
    /\ corePc = "loaded"
    /\ corePc' = "removed"
    /\ output' = removeWatermark(image)
    /\ UNCHANGED <<image, held, query, info, shellVars>>

CoreNext ==
    \/ \E img \in Rasters : CoreLoadRaster(img)
    \/ \E w \in 1..MaxQueryDim, h \in 1..MaxQueryDim : CoreGetWatermarkInfo(w, h)
    \/ CoreGetImageInfo
    \/ CoreRemoveWatermark

SpecCore == Init /\ [][CoreNext]_vars

(***************************************************************************)
(* Properties.                                                             *)
(***************************************************************************)
Active(r) == runs[r].pc \notin {"done", "aborted"}

Terminal(id) == items[id].status \in {"completed", "error"}

C2_EngineSetAtEveryCall ==
    /\ ~nullEngineCalls
    /\ (listeners => engine # 0)
    /\ (initPc = "failed" => ~listeners /\ runs = <<>>)
    /\ (runs # <<>> => engine # 0)

\* C2 witness: removals have been called, on a set engine
C2_Witness ==
    /\ engine # 0
    /\ \E r \in 1..Len(runs) : runs[r].kind = "single" /\ runs[r].pc = "remove"
    /\ \E r \in 1..Len(runs) : runs[r].kind = "queue" /\ runs[r].pc = "blob"

\* the first pending item of array a after index j (0: none)
NextPendingAfter(a, j) ==
    LET later == {i \in (j + 1)..QLen(a) : items[<<a, i>>].status = "pending"}
    IN IF later = {} THEN 0 ELSE CHOOSE i \in later : \A k \in later : i <= k

\* C3: when the removal or the encoding of an item fails inside processQueue,
\* that item alone becomes 'error', processedCount is not incremented, and
\* the same call goes on with the next pending item of the array (which
\* becomes 'processing'), or ends when none is left.
C3_FailureSkipsToNext ==
    [][\A r \in 1..Len(runs) :
         LET id == CurrentItem(r)
             n  == NextPendingAfter(runs[r].arr, runs[r].idx)
         IN (/\ runs[r].kind = "queue"
             /\ runs[r].loop = 2
             /\ runs[r].pc \in {"remove", "blob"}
             /\ items'[id].status = "error")
            => /\ processedCount' = processedCount
               /\ \A o \in DOMAIN items \ {id} :
                     items'[o].status = "error" => items[o].status = "error"
               /\ IF n = 0
                  THEN runs'[r].pc = "done"
                  ELSE /\ runs'[r].pc = "remove"
                       /\ runs'[r].idx = n
                       /\ runs'[r].arr = runs[r].arr
                       /\ items'[<<runs[r].arr, n>>].status = "processing"]_vars

\* C3 witness: the first item of a batch failed and the second one was
\* processed and counted after it
C3_Witness ==
    \E r \in 1..Len(runs) :
        /\ runs[r].kind = "queue"
        /\ imageQueue = r
        /\ items[<<r, 1>>].status = "error"
        /\ items[<<r, 2>>].status = "completed"
        /\ processedCount = 1

\* C4: for all positive (width, height) the region returned by the geometry
\* query has size > 0, position.x >= 0, position.y >= 0,
\* position.x + size <= width and position.y + size <= height.
C4_RegionInBounds ==
    query # <<>> =>
        /\ info.size > 0
        /\ info.position.x >= 0
        /\ info.position.y >= 0
        /\ info.position.x + info.size <= query[1]
        /\ info.position.y + info.size <= query[2]

\* C4 witness: a query for an image narrower than the minimum footprint and
\* of extreme aspect ratio, answered with a region shrunk to fit
C4_Witness ==
    /\ query = <<MaxQueryDim, 1>>
    /\ info.size = 1
    /\ info.size < MinSize

\* C5: the raster returned by the removal has the dimensions of the source,
\* every pixel outside the resolved region equals the source pixel, and the
\* source raster is unchanged by the call.
C5_OutsideRegionUntouched ==
    corePc = "removed" =>
        /\ output.width = held.width
        /\ output.height = held.height
        /\ DOMAIN output.data = DOMAIN held.data
        /\ \A x \in 0..(held.width - 1), y \in 0..(held.height - 1) :
              ~InRegion(resolve(held.width, held.height), x, y)
                  => Pixel(output, x, y) = Pixel(held, x, y)
        /\ image = held

\* C5 witness: a removal that changed pixels of a raster larger than its region
C5_Witness ==
    /\ corePc = "removed"
    /\ output # held
    /\ resolve(held.width, held.height).size < held.width
    /\ resolve(held.width, held.height).size < held.height

\* C6: for every item, originalImg is assigned exactly once, before the
\* removal is called on it, and is not reassigned while the call is
\* outstanding.
C6_SourceAssignedBeforeRemoval ==
    /\ \A id \in DOMAIN items : items[id].originalImg <= 1
    /\ \A r \in 1..Len(runs) :
          runs[r].pc = "remove" =>
              /\ runs[r].arg # 0
              /\ items[CurrentItem(r)].originalImg = runs[r].arg

\* a file fails the validation: MIME type not jpeg/png/webp, or above 20 MiB
FailsValidation(f) ==
    \/ FileType(f) \notin {"image/jpeg", "image/png", "image/webp"}
    \/ FileSize(f) > 20 * 1024 * 1024

\* C7: files that fail the validation are never enqueued, and a selection
\* with no valid file leaves imageQueue, the items, processedCount, the runs
\* and both preview panels unchanged.
C7_InvalidFilesHaveNoEffect ==
    [][/\ \A id \in DOMAIN items' : ~FailsValidation(items'[id].file)
       /\ (lastDrop # "rejected" /\ lastDrop' = "rejected")
             => UNCHANGED <<imageQueue, batchLen, items, processedCount, runs,
                            singlePreview, multiPreview>>]_vars

\* C7 witness: a selection without a valid file arrived while a queue was
\* being processed
C7_Witness ==
    /\ lastDrop = "rejected"
    /\ imageQueue # 0
    /\ multiPreview
    /\ \E r \in 1..Len(runs) : Active(r)

\* C8: every item of a multi-file batch reaches 'completed' or 'error' once
\* every asynchronous operation has settled: when no call is in flight any
\* more, no item of a batch is left 'pending' or 'processing'.
C8_BatchReachesTerminal ==
    (\A r \in 1..Len(runs) : ~Active(r))
        => \A r \in 1..Len(runs) :
              runs[r].kind = "queue"
                  => \A i \in 1..batchLen[r] : Terminal(<<r, i>>)

\* C9: processedCount equals the number of 'completed' items of the current
\* imageQueue, and the progress text never shows a count greater than the
\* queue length.
C9_CountMatchesCompleted ==
    /\ processedCount = CompletedIn(imageQueue)
    /\ (progressText # <<>> => progressText[1] <= progressText[2])

\* C10: in single-file mode, whenever the processed section is displayed, the
\* processed image and the download button belong to the file drawn in
\* originalCanvas.
C10_ProcessedMatchesOriginal ==
    (singlePreview /\ processedSection)
        => /\ processedImage = originalCanvas
           /\ downloadBtn = originalCanvas

\* the items of array a
ItemsOf(a) == {<<a, i>> : i \in 1..batchLen[a]}

\* C11: within one batch items are processed one at a time in queue order:
\* at most one item of a batch is 'processing', item k+1 has not left
\* 'pending' before item k is 'completed' or 'error', and no item of a batch
\* has left 'pending' (no removal has started) before every image of the
\* batch has been loaded.
C11_OneAtATimeAfterLoading ==
    \A a \in 1..Len(batchLen) :
        /\ Cardinality({id \in ItemsOf(a) :
                           items[id].status = "processing"}) <= 1
        /\ \A k \in 1..(batchLen[a] - 1) :
              items[<<a, k + 1>>].status # "pending" => Terminal(<<a, k>>)
        /\ (\E id \in ItemsOf(a) : items[id].status # "pending")
              => \A id \in ItemsOf(a) : items[id].originalImg >= 1

\* the moves of an item's status that the claim allows
ForwardMoves == {<<"pending", "processing">>, <<"processing", "completed">>,
                 <<"processing", "error">>}

\* C12: the status of an item only moves pending -> processing -> completed
\* or pending -> processing -> error; 'completed' and 'error' are terminal
\* and no item returns to 'pending' or is processed twice.
C12_StatusMovesForward ==
    [][\A id \in DOMAIN items :
          \/ items'[id].status = items[id].status
          \/ <<items[id].status, items'[id].status>> \in ForwardMoves]_vars

\* C13: the zip built by downloadAll has one entry per 'completed' item of
\* the current imageQueue, whatever the file names are, and nothing is
\* built when no item is 'completed'.
C13_ZipEntryPerCompletedItem ==
    [][/\ lastZip' # lastZip
             => Cardinality(lastZip') = CompletedIn(imageQueue)
       /\ CompletedIn(imageQueue) = 0 => lastZip' = lastZip]_vars

\* downloadImage(item), app.js:301-306: the value of item.processedBlob that
\* the handler hands to URL.createObjectURL when it is clicked
downloadImage(id) == items[id].processedBlob

\* the items whose download handler is installed: on a card's button
\* (app.js:254-256) or on #downloadBtn (app.js:188)
WithDownloadHandler ==
    {id \in DOMAIN items : items[id].onclick \/ downloadBtn = id}

\* C14: no download path reads an unset result: every 'completed' item has
\* its processedBlob assigned, every installed download handler serves an
\* item whose processedBlob is assigned, and the download-all button is
\* visible only when some item has completed.
C14_DownloadsReadAssignedResult ==
    /\ \A id \in DOMAIN items :
          items[id].status = "completed" => items[id].processedBlob # "null"
    /\ \A id \in WithDownloadHandler : downloadImage(id) # "null"
    /\ downloadAllBtn => \E id \in DOMAIN items : items[id].status = "completed"
=============================================================================
